---- MODULE Spec2Model ----
(***************************************************************************)
(* Model of allennlp/models/archival.py: archive_model packs a             *)
(* serialization directory into model.tar.gz, load_archive extracts such   *)
(* an archive into a temporary directory, merges the manifest-derived      *)
(* replacements into the overrides, loads the configuration and the model, *)
(* removes the temporary directory and returns the Archive.                *)
(*                                                                         *)
(* Files that the code never rewrites (weights, vocabulary, auxiliary      *)
(* files) are identified by their name: the bytes stored under an archive  *)
(* entry are represented by the name of the file they were read from.      *)
(***************************************************************************)
EXTENDS Integers, Sequences, FiniteSets, TLC

\* ---------------------------------------------------------------- bounds
MaxCalls == 3         \* calls of archive_model and load_archive in one behaviour

\* ------------------------------------------------------- input domains
\* Configuration keys, in the order a dict holding them lists them.
KeyOrder == <<"a", "extra">>
Keys == {KeyOrder[i] : i \in DOMAIN KeyOrder}

\* Auxiliary file paths a caller may name; the last one does not exist.
Paths == {"/tmp/foo.txt", "/tmp/bar.txt", "/tmp/missing.txt"}
ExistingPaths == {"/tmp/foo.txt", "/tmp/bar.txt"}

\* Names mkdtemp can give: one per call is enough.
TempNames == 1..MaxCalls

\* ------------------------------------------------------- known names
_CONFIG_NAME == <<"config.json", "">>
_WEIGHTS_NAME == <<"weights.th", "">>
_FTA_NAME == <<"files_to_archive.json", "">>
VOCABULARY == <<"vocabulary", "">>
FtaEntry(key) == <<"fta", key>>

_DEFAULT_WEIGHTS == "best.th"
WeightNames == {_DEFAULT_WEIGHTS, "epoch.th"}

\* ------------------------------------------------------- plain data
EmptyMap == [k \in {} |-> 0]

Put(f, k, v) == [x \in (DOMAIN f) \cup {k} |-> IF x = k THEN v ELSE f[x]]

Restrict(f, S) == [x \in S |-> f[x]]

\* Every partial map from D to R.
Maps(D, R) == UNION {[S -> R] : S \in SUBSET D}

\* A configuration value: the value the archived config file holds for a
\* key, a value the caller wrote in the overrides text, or the path of an
\* extracted auxiliary file.
FileValue(k) == [kind |-> "file", dir |-> 0, key |-> k]
CallerValue(k) == [kind |-> "caller", dir |-> 0, key |-> k]

\* os.path.join(tempdir, f"fta/{key}")
ReplacementFilename(tempdir, key) == [kind |-> "extracted", dir |-> tempdir, key |-> key]

\* The keys of S in dict order.
KeySeq(S) == SelectSeq(KeyOrder, LAMBDA k : k \in S)

\* json.dumps of a flat dict: the text is the list of its items.
JsonDumps(m) ==
  LET ks == KeySeq(DOMAIN m)
  IN [i \in 1..Len(ks) |-> <<ks[i], m[ks[i]]>>]

\* json.loads of such a text: a dict, the last item of a key wins.
JsonLoads(text) ==
  LET last(k) == CHOOSE i \in DOMAIN text :
                    /\ text[i][1] = k
                    /\ \A j \in DOMAIN text : text[j][1] = k => j <= i
  IN [k \in {text[i][1] : i \in DOMAIN text} |-> text[last(k)][2]]

\* pyhocon.ConfigFactory.parse_string: the empty text is the empty tree.
ParseString(text) == JsonLoads(text)

\* ConfigTree.with_fallback: the receiver's values win, the argument only
\* supplies the keys the receiver does not set.
WithFallback(self, fallback) ==
  [k \in (DOMAIN self) \cup (DOMAIN fallback) |->
      IF k \in DOMAIN self THEN self[k] ELSE fallback[k]]

\* ------------------------------------------------------------- state
VARIABLES
  weightsFiles,      \* names of the weights files present in serialization_dir
  vocabulary,        \* serialization_dir/vocabulary exists
  configFile,        \* serialization_dir/model_params.json
  auxFiles,          \* auxiliary file paths that exist
  ftaFile,           \* serialization_dir/files_to_archive.json
  archive,           \* serialization_dir/model.tar.gz
  tempDirs,          \* temporary directories that exist
  tempFiles,         \* what each existing temporary directory holds
  numCalls,          \* calls made so far
  raisedAfterMkdtemp,\* load_archive calls that raised after mkdtemp
  call,              \* the function of the current / latest call
  outcome,           \* "none", "running", "returned", "aborted", "raised"
  pc,                \* position of the current call, "idle" between calls
  weights,           \* archive_model: the weights argument
  files_to_archive,  \* archive_model: the files_to_archive argument
  overridesArg,      \* load_archive: the overrides text the caller passed
  overrides,         \* load_archive: the local variable overrides
  tempdir,           \* load_archive: the local variable tempdir, 0 before mkdtemp
  heap,              \* load_archive: the Params objects, by reference
  config,            \* load_archive: reference of the local variable config
  model,             \* load_archive: the local variable model
  result,            \* load_archive: the Archive value returned
  stages             \* load_archive: the stages the call has entered, in order

fsVars == <<weightsFiles, vocabulary, configFile, auxFiles>>
serVars == <<ftaFile, archive>>
tmpVars == <<tempDirs, tempFiles>>
archArgs == <<weights, files_to_archive>>
loadVars == <<overridesArg, overrides, tempdir, heap, config, model, result, stages>>
vars == <<fsVars, serVars, tmpVars, numCalls, raisedAfterMkdtemp, call, outcome, pc,
          archArgs, loadVars>>

NoFile == [exists |-> FALSE, text |-> <<>>]
NoConfigFile == [exists |-> FALSE, cfg |-> EmptyMap]
NoArchive ==
  [exists |-> FALSE, complete |-> FALSE, names |-> {}, config |-> EmptyMap,
   weights |-> "", manifest |-> <<>>, fta |-> EmptyMap]
NoModel == [loaded |-> FALSE, weights |-> "", params |-> 0]
NoResult == [returned |-> FALSE, model |-> NoModel, config |-> 0]

\* The config files enumerated: absent, or binding some of the keys.
ConfigFiles ==
  {NoConfigFile} \cup
  {[exists |-> TRUE, cfg |-> [k \in S |-> FileValue(k)]] : S \in SUBSET Keys}

\* The overrides texts a caller passes: "" or a JSON object over the keys.
OverridesTexts == {JsonDumps([k \in S |-> CallerValue(k)]) : S \in SUBSET Keys}

Init ==
  /\ weightsFiles \in {{w} : w \in WeightNames}
  /\ vocabulary \in BOOLEAN
  /\ configFile \in ConfigFiles
  /\ auxFiles = ExistingPaths
  /\ ftaFile = NoFile
  /\ archive = NoArchive
  /\ tempDirs = {}
  /\ tempFiles = EmptyMap
  /\ numCalls = 0
  /\ raisedAfterMkdtemp = 0
  /\ call = "none"
  /\ outcome = "none"
  /\ pc = "idle"
  /\ weights = ""
  /\ files_to_archive = EmptyMap
  /\ overridesArg = <<>>
  /\ overrides = <<>>
  /\ tempdir = 0
  /\ heap = EmptyMap
  /\ config = 0
  /\ model = NoModel
  /\ result = NoResult
  /\ stages = <<>>

\* ----------------------------------------------------- archive_model

\* if files_to_archive: write json.dumps(files_to_archive) to fta_file
WriteManifest(file, fta) ==
  IF fta # EmptyMap THEN [exists |-> TRUE, text |-> JsonDumps(fta)] ELSE file

\* AddList with the manifest and the fta/ entries added whenever a
\* files_to_archive.json lies in serialization_dir.
AddList_StaleManifest(w, fta) ==
  LET ks == KeySeq(DOMAIN fta)
      fixed == << [name |-> _CONFIG_NAME, ok |-> configFile.exists],
                  [name |-> _WEIGHTS_NAME, ok |-> w \in weightsFiles],
                  [name |-> VOCABULARY, ok |-> vocabulary] >>
  IN IF fta # EmptyMap \/ ftaFile.exists
     THEN fixed \o << [name |-> _FTA_NAME, ok |-> TRUE] >>
                \o [i \in 1..Len(ks) |->
                      [name |-> FtaEntry(ks[i]), ok |-> fta[ks[i]] \in auxFiles]]
     ELSE fixed

\* The archive.add calls of the with block, in order, each with whether
\* the file it names exists.
AddList(w, fta) ==
  LET ks == KeySeq(DOMAIN fta)
      fixed == << [name |-> _CONFIG_NAME, ok |-> configFile.exists],
                  [name |-> _WEIGHTS_NAME, ok |-> w \in weightsFiles],
                  [name |-> VOCABULARY, ok |-> vocabulary] >>
  IN IF fta # EmptyMap
     THEN fixed \o << [name |-> _FTA_NAME, ok |-> TRUE] >>
                \o [i \in 1..Len(ks) |->
                      [name |-> FtaEntry(ks[i]), ok |-> fta[ks[i]] \in auxFiles]]
     ELSE fixed

\* tarfile.open(archive_file, 'w:gz') truncates model.tar.gz; archive.add
\* raises at the first file that does not exist and the with block closes
\* the file with the entries added so far.
PackArchive(w, fta, manifest) ==
  LET adds == AddList(w, fta)
      bad == {i \in 1..Len(adds) : ~adds[i].ok}
      n == IF bad = {} THEN Len(adds) + 1
           ELSE CHOOSE i \in bad : \A j \in bad : i <= j
      names == {adds[i].name : i \in 1..(n - 1)}
  IN [exists |-> TRUE,
      complete |-> bad = {},
      names |-> names,
      config |-> IF _CONFIG_NAME \in names THEN configFile.cfg ELSE EmptyMap,
      weights |-> IF _WEIGHTS_NAME \in names THEN w ELSE "",
      manifest |-> IF _FTA_NAME \in names THEN manifest.text ELSE <<>>,
      fta |-> [k \in {x \in DOMAIN fta : FtaEntry(x) \in names} |-> fta[k]]]

\* ArchiveModelResult with the manifest written before the weights check.
ArchiveModelResult_ManifestFirst(w, fta) ==
  LET manifest == WriteManifest(ftaFile, fta)
      packed == PackArchive(w, fta, manifest)
  IN IF w \notin weightsFiles
     THEN [outcome |-> "aborted", ftaFile |-> manifest, archive |-> archive]
     ELSE [outcome |-> IF packed.complete THEN "returned" ELSE "raised",
           ftaFile |-> manifest,
           archive |-> packed]

\* ArchiveModelResult returning after the config check too.
ArchiveModelResult_ConfigReturns(w, fta) ==
  IF w \notin weightsFiles \/ ~configFile.exists
  THEN [outcome |-> "aborted", ftaFile |-> ftaFile, archive |-> archive]
  ELSE LET manifest == WriteManifest(ftaFile, fta)
           packed == PackArchive(w, fta, manifest)
       IN [outcome |-> IF packed.complete THEN "returned" ELSE "raised",
           ftaFile |-> manifest,
           archive |-> packed]

\* The whole of archive_model: what it leaves in serialization_dir and how
\* it ends ("aborted": the early return after the weights check).
ArchiveModelResult(w, fta) ==
  IF w \notin weightsFiles
  THEN [outcome |-> "aborted", ftaFile |-> ftaFile, archive |-> archive]
  ELSE LET manifest == WriteManifest(ftaFile, fta)
           packed == PackArchive(w, fta, manifest)
       IN [outcome |-> IF packed.complete THEN "returned" ELSE "raised",
           ftaFile |-> manifest,
           archive |-> packed]

archive_model(w, fta) ==
  /\ pc = "idle"
  /\ numCalls < MaxCalls
  /\ numCalls' = numCalls + 1
  /\ call' = "archive_model"
  /\ weights' = w
  /\ files_to_archive' = fta
  /\ LET r == ArchiveModelResult(w, fta)
     IN /\ outcome' = r.outcome
        /\ ftaFile' = r.ftaFile
        /\ archive' = r.archive
  /\ overridesArg' = <<>>
  /\ overrides' = <<>>
  /\ tempdir' = 0
  /\ heap' = EmptyMap
  /\ config' = 0
  /\ model' = NoModel
  /\ result' = NoResult
  /\ stages' = <<>>
  /\ UNCHANGED <<fsVars, tmpVars, raisedAfterMkdtemp, pc>>

\* ------------------------------------------------------ load_archive

\* Mkdtemp with one fixed directory name.
Mkdtemp_Fixed(dirs) == CHOOSE t \in TempNames : \A u \in TempNames : t <= u

\* tempfile.mkdtemp(): a name no existing directory has.
Mkdtemp(dirs) ==
  CHOOSE t \in TempNames :
    /\ t \notin dirs
    /\ \A u \in TempNames : u \notin dirs => t <= u

\* archive.extractall(tempdir): the entries of the archive, as files.
ExtractAll(a) ==
  [names |-> a.names, config |-> a.config, weights |-> a.weights,
   manifest |-> a.manifest, fta |-> a.fta]

NoFiles ==
  [names |-> {}, config |-> EmptyMap, weights |-> "", manifest |-> <<>>,
   fta |-> EmptyMap]

\* replacements[key] = os.path.join(tempdir, f"fta/{key}") for each key of
\* the manifest.
Replacements(dir, manifest) ==
  [key \in DOMAIN manifest |-> ReplacementFilename(dir, key)]

\* json.dumps(from_dict(replacements).with_fallback(parse_string(overrides)))
CombinedOverrides(dir, manifest, text) ==
  JsonDumps(WithFallback(Replacements(dir, manifest), ParseString(text)))

\* Params.from_file(params_file, params_overrides): the file's configuration
\* with the overrides applied on top of it.
ParamsFromFile(fileCfg, text) == WithFallback(ParseString(text), fileCfg)

\* Rmtree removing nothing.
Rmtree_Nothing(dirs, dir) == dirs

\* shutil.rmtree(tempdir)
Rmtree(dirs, dir) == dirs \ {dir}

\* Params.duplicate(): a new Params object, at the next reference, holding
\* a copy of the parameters.
DuplicateRef(ref) == ref + 1
Duplicate(h, ref) == Put(h, DuplicateRef(ref), h[ref])

\* LoadArgument handing config itself to Model.load.
LoadArgument_Config(ref) == ref

\* The Params object load_archive hands to Model.load: config.duplicate().
LoadArgument(ref) == DuplicateRef(ref)

\* Model.load pops the parameters it reads from the object it is given.
Consume(h, ref, popped) == Put(h, ref, Restrict(h[ref], (DOMAIN h[ref]) \ popped))

\* An exception leaves load_archive, dir being the value of tempdir (0
\* before mkdtemp): the call ends, nothing is returned, nothing else is done.
Raise(dir) ==
  /\ pc' = "idle"
  /\ outcome' = "raised"
  /\ raisedAfterMkdtemp' = IF dir # 0 THEN raisedAfterMkdtemp + 1
                           ELSE raisedAfterMkdtemp

\* The call starts: cached_path(archive_file) returns the local path.
ResolveOk(text) ==
  /\ pc = "idle"
  /\ numCalls < MaxCalls
  /\ archive.exists
  /\ numCalls' = numCalls + 1
  /\ call' = "load_archive"
  /\ outcome' = "running"
  /\ pc' = "extract"
  /\ weights' = ""
  /\ files_to_archive' = EmptyMap
  /\ overridesArg' = text
  /\ overrides' = text
  /\ tempdir' = 0
  /\ heap' = EmptyMap
  /\ config' = 0
  /\ model' = NoModel
  /\ result' = NoResult
  /\ stages' = <<"resolve">>
  /\ UNCHANGED <<fsVars, serVars, tmpVars, raisedAfterMkdtemp>>

\* ResolveFail with the temporary directory made before cached_path runs.
ResolveFail_MkdtempFirst(text) ==
  /\ pc = "idle"
  /\ numCalls < MaxCalls
  /\ numCalls' = numCalls + 1
  /\ call' = "load_archive"
  /\ weights' = ""
  /\ files_to_archive' = EmptyMap
  /\ overridesArg' = text
  /\ overrides' = text
  /\ LET t == Mkdtemp(tempDirs)
     IN /\ tempdir' = t
        /\ tempDirs' = tempDirs \cup {t}
        /\ tempFiles' = Put(tempFiles, t, NoFiles)
  /\ heap' = EmptyMap
  /\ config' = 0
  /\ model' = NoModel
  /\ result' = NoResult
  /\ stages' = <<"mkdtemp", "resolve">>
  /\ Raise(Mkdtemp(tempDirs))
  /\ UNCHANGED <<fsVars, serVars>>

\* The call starts and cached_path raises: the file does not exist or the
\* remote archive cannot be fetched.
ResolveFail(text) ==
  /\ pc = "idle"
  /\ numCalls < MaxCalls
  /\ numCalls' = numCalls + 1
  /\ call' = "load_archive"
  /\ weights' = ""
  /\ files_to_archive' = EmptyMap
  /\ overridesArg' = text
  /\ overrides' = text
  /\ tempdir' = 0
  /\ heap' = EmptyMap
  /\ config' = 0
  /\ model' = NoModel
  /\ result' = NoResult
  /\ stages' = <<"resolve">>
  /\ Raise(0)
  /\ UNCHANGED <<fsVars, serVars, tmpVars>>

\* mkdtemp, then tarfile.open and extractall succeed. An archive file with
\* no entry at all cannot be opened for reading.
ExtractOk ==
  /\ pc = "extract"
  /\ archive.names # {}
  /\ LET t == Mkdtemp(tempDirs)
     IN /\ tempdir' = t
        /\ tempDirs' = tempDirs \cup {t}
        /\ tempFiles' = Put(tempFiles, t, ExtractAll(archive))
  /\ stages' = stages \o <<"mkdtemp", "extract">>
  /\ pc' = "manifest"
  /\ UNCHANGED <<fsVars, serVars, numCalls, raisedAfterMkdtemp, call, outcome,
                 archArgs, overridesArg, overrides, heap, config, model, result>>

\* mkdtemp, then tarfile.open or extractall raises.
ExtractFail ==
  /\ pc = "extract"
  /\ LET t == Mkdtemp(tempDirs)
     IN /\ tempdir' = t
        /\ tempDirs' = tempDirs \cup {t}
        /\ tempFiles' = Put(tempFiles, t, NoFiles)
  /\ stages' = stages \o <<"mkdtemp", "extract">>
  /\ Raise(Mkdtemp(tempDirs))
  /\ UNCHANGED <<fsVars, serVars, numCalls, call, archArgs, overridesArg,
                 overrides, heap, config, model, result>>

\* os.path.exists(fta_file) is false: overrides stays as passed.
ManifestAbsent ==
  /\ pc = "manifest"
  /\ _FTA_NAME \notin tempFiles[tempdir].names
  /\ pc' = "config"
  /\ UNCHANGED <<fsVars, serVars, tmpVars, numCalls, raisedAfterMkdtemp, call,
                 outcome, archArgs, loadVars>>

\* The manifest exists and is read: overrides becomes the combined text.
ManifestOk ==
  /\ pc = "manifest"
  /\ _FTA_NAME \in tempFiles[tempdir].names
  /\ overrides' = CombinedOverrides(tempdir, JsonLoads(tempFiles[tempdir].manifest),
                                    overrides)
  /\ stages' = stages \o <<"manifest">>
  /\ pc' = "config"
  /\ UNCHANGED <<fsVars, serVars, tmpVars, numCalls, raisedAfterMkdtemp, call,
                 outcome, archArgs, overridesArg, tempdir, heap, config, model,
                 result>>

\* The manifest exists and json.loads or parse_string raises.
ManifestFail ==
  /\ pc = "manifest"
  /\ _FTA_NAME \in tempFiles[tempdir].names
  /\ stages' = stages \o <<"manifest">>
  /\ Raise(tempdir)
  /\ UNCHANGED <<fsVars, serVars, tmpVars, numCalls, call, archArgs,
                 overridesArg, overrides, tempdir, heap, config, model, result>>

\* config = Params.from_file(tempdir/config.json, overrides)
ConfigOk ==
  /\ pc = "config"
  /\ _CONFIG_NAME \in tempFiles[tempdir].names
  /\ heap' = Put(EmptyMap, 1, ParamsFromFile(tempFiles[tempdir].config, overrides))
  /\ config' = 1
  /\ stages' = stages \o <<"config">>
  /\ pc' = "model"
  /\ UNCHANGED <<fsVars, serVars, tmpVars, numCalls, raisedAfterMkdtemp, call,
                 outcome, archArgs, overridesArg, overrides, tempdir, model,
                 result>>

\* Params.from_file raises.
ConfigFail ==
  /\ pc = "config"
  /\ stages' = stages \o <<"config">>
  /\ Raise(tempdir)
  /\ UNCHANGED <<fsVars, serVars, tmpVars, numCalls, call, archArgs,
                 overridesArg, overrides, tempdir, heap, config, model, result>>

\* model = Model.load(config.duplicate(), weights_file, tempdir, cuda_device)
ModelOk(popped) ==
  /\ pc = "model"
  /\ {_WEIGHTS_NAME, VOCABULARY} \subseteq tempFiles[tempdir].names
  /\ LET arg == LoadArgument(config)
         copied == Duplicate(heap, config)
     IN /\ popped \subseteq DOMAIN copied[arg]
        /\ heap' = Consume(copied, arg, popped)
        /\ model' = [loaded |-> TRUE, weights |-> tempFiles[tempdir].weights,
                     params |-> arg]
  /\ stages' = stages \o <<"model">>
  /\ pc' = "cleanup"
  /\ UNCHANGED <<fsVars, serVars, tmpVars, numCalls, raisedAfterMkdtemp, call,
                 outcome, archArgs, overridesArg, overrides, tempdir, config,
                 result>>

\* Model.load raises.
ModelFail ==
  /\ pc = "model"
  /\ stages' = stages \o <<"model">>
  /\ Raise(tempdir)
  /\ UNCHANGED <<fsVars, serVars, tmpVars, numCalls, call, archArgs,
                 overridesArg, overrides, tempdir, heap, config, model, result>>

\* shutil.rmtree(tempdir)
Cleanup ==
  /\ pc = "cleanup"
  /\ tempDirs' = Rmtree(tempDirs, tempdir)
  /\ tempFiles' = Restrict(tempFiles, tempDirs')
  /\ stages' = stages \o <<"cleanup">>
  /\ pc' = "return"
  /\ UNCHANGED <<fsVars, serVars, numCalls, raisedAfterMkdtemp, call, outcome,
                 archArgs, overridesArg, overrides, tempdir, heap, config, model,
                 result>>

\* return Archive(model=model, config=config)
Return ==
  /\ pc = "return"
  /\ result' = [returned |-> TRUE, model |-> model, config |-> config]
  /\ outcome' = "returned"
  /\ stages' = stages \o <<"return">>
  /\ pc' = "idle"
  /\ UNCHANGED <<fsVars, serVars, tmpVars, numCalls, raisedAfterMkdtemp, call,
                 archArgs, overridesArg, overrides, tempdir, heap, config, model>>

Next ==
  \/ \E w \in WeightNames, fta \in Maps(Keys, Paths) : archive_model(w, fta)
  \/ \E text \in OverridesTexts : ResolveOk(text)
  \/ \E text \in OverridesTexts : ResolveFail(text)
  \/ ExtractOk
  \/ ExtractFail
  \/ ManifestAbsent
  \/ ManifestOk
  \/ ManifestFail
  \/ ConfigOk
  \/ ConfigFail
  \/ \E popped \in SUBSET Keys : ModelOk(popped)
  \/ ModelFail
  \/ Cleanup
  \/ Return

Spec == Init /\ [][Next]_vars

\* ------------------------------------------------------------ properties

Last(seq) == seq[Len(seq)]
Entered(stage) == \E i \in DOMAIN stages : stages[i] = stage
LoadReturned == call = "load_archive" /\ outcome = "returned"
LoadRaisedAt(stage) ==
  call = "load_archive" /\ outcome = "raised" /\ Last(stages) = stage

\* The manifest was found and merged into overrides by the current call.
ManifestMerged ==
  call = "load_archive" /\ Entered("manifest") /\ ~LoadRaisedAt("manifest")

\* C1: whenever load_archive has merged a manifest into the overrides, every
\* key set both by the caller's overrides text and by the manifest carries
\* the caller's value in the combined overrides.
C1_CallerOverridesWin ==
  ManifestMerged =>
    \A k \in (DOMAIN ParseString(overridesArg)) \cap (DOMAIN JsonLoads(archive.manifest)) :
       ParseString(overrides)[k] = ParseString(overridesArg)[k]

\* C2: a call is all-or-nothing: an archive_model call that returns leaves a
\* complete model.tar.gz, one that raises leaves no model.tar.gz (it
\* truncated any earlier one itself), and a load_archive call that raises
\* returns no Archive value.
C2_AllOrNothing ==
  /\ (call = "archive_model" /\ outcome = "returned") =>
        (archive.exists /\ archive.complete)
  /\ (call = "archive_model" /\ outcome = "raised") => ~archive.exists
  /\ (call = "load_archive" /\ outcome = "raised") => ~result.returned

\* C3: an archive_model call whose weights file does not exist ends at the
\* early return and changes no file: model.tar.gz, files_to_archive.json,
\* the source files and the temporary directories are as before the call.
C3_MissingWeightsChangesNothing ==
  [][ (call' = "archive_model" /\ numCalls' = numCalls + 1
         /\ weights' \notin weightsFiles)
      => (outcome' = "aborted" /\ UNCHANGED <<fsVars, serVars, tmpVars>>) ]_vars

\* A call with a missing weights file and a non-empty map has returned,
\* with an earlier model.tar.gz in the directory and no manifest written.
C3_Witness ==
  /\ call = "archive_model" /\ outcome = "aborted"
  /\ files_to_archive # EmptyMap
  /\ archive.exists /\ ~ftaFile.exists

\* C4: after a successful archive_model call the entries of model.tar.gz
\* are exactly config.json, weights.th (holding the chosen weights file) and
\* vocabulary, plus files_to_archive.json and one fta/<key> per key of the
\* map exactly when the map given to that call is non-empty.
C4_ExactEntries ==
  (call = "archive_model" /\ outcome = "returned") =>
    /\ archive.names =
         {_CONFIG_NAME, _WEIGHTS_NAME, VOCABULARY} \cup
         (IF files_to_archive # EmptyMap
          THEN {_FTA_NAME} \cup {FtaEntry(k) : k \in DOMAIN files_to_archive}
          ELSE {})
    /\ archive.weights = weights
    /\ archive.fta = files_to_archive

\* A call without a map succeeded while the files_to_archive.json of an
\* earlier call is still in the serialization directory.
C4_Witness ==
  /\ call = "archive_model" /\ outcome = "returned"
  /\ files_to_archive = EmptyMap
  /\ ftaFile.exists

\* C5: when load_archive, called with empty overrides on a complete archive,
\* has returned, the returned configuration binds every key of the
\* auxiliary-file map to tempdir/fta/<key>, and the file at that path holds
\* the bytes of the file the map named at archive time.
C5_ExtractedCopyInReturnedConfig ==
  (LoadReturned /\ archive.complete /\ overridesArg = <<>>) =>
    \A k \in DOMAIN archive.fta :
       /\ k \in DOMAIN heap[result.config]
       /\ heap[result.config][k] = ReplacementFilename(tempdir, k)
       /\ tempdir \in tempDirs
       /\ FtaEntry(k) \in tempFiles[tempdir].names
       /\ tempFiles[tempdir].fta[k] = archive.fta[k]

\* C6: when load_archive has returned an Archive value its temporary
\* directory and everything in it are gone, and the removal came after
\* model instantiation and before the return.
C6_TempdirGoneOnReturn ==
  /\ LoadReturned =>
       /\ result.returned
       /\ tempdir # 0
       /\ tempdir \notin tempDirs
       /\ tempdir \notin DOMAIN tempFiles
       /\ SubSeq(stages, Len(stages) - 2, Len(stages)) = <<"model", "cleanup", "return">>
  /\ (call = "load_archive" /\ pc = "return") => tempdir \notin tempDirs
  /\ (call = "load_archive" /\ pc = "cleanup") => (tempdir \in tempDirs /\ model.loaded)

\* load_archive returned an Archive holding a loaded model.
C6_Witness == LoadReturned /\ result.returned /\ result.model.loaded

\* C7: a load_archive call that raises after mkdtemp leaves its temporary
\* directory behind, so between calls the number of temporary directories
\* equals the number of calls that raised after mkdtemp.
C7_LeakOnEveryFailure ==
  /\ (call = "load_archive" /\ outcome = "raised" /\ tempdir # 0) => tempdir \in tempDirs
  /\ pc = "idle" => Cardinality(tempDirs) = raisedAfterMkdtemp

\* Two restores failed after mkdtemp, the latest at model instantiation.
C7_Witness ==
  /\ pc = "idle"
  /\ raisedAfterMkdtemp = 2
  /\ Cardinality(tempDirs) = 2
  /\ LoadRaisedAt("model")

StageOrder ==
  <<"resolve", "mkdtemp", "extract", "manifest", "config", "model", "cleanup", "return">>
StageIndex(stage) == CHOOSE i \in DOMAIN StageOrder : StageOrder[i] = stage

\* C8: load_archive enters its stages in the order resolve, mkdtemp,
\* extract, manifest, config, model, cleanup, return, skipping only the
\* manifest stage, and a stage that raises is the last one: after a
\* resolver failure no temporary directory was made, after an extraction
\* failure the overrides are untouched and no configuration exists, after a
\* manifest failure no configuration exists, after a configuration failure
\* no model exists, and a call that raised returned no Archive value.
C8_StagesInOrder ==
  call = "load_archive" =>
    /\ stages[1] = "resolve"
    /\ \A i \in 1..(Len(stages) - 1) :
          \/ StageIndex(stages[i + 1]) = StageIndex(stages[i]) + 1
          \/ stages[i] = "extract" /\ stages[i + 1] = "config"
    /\ LoadRaisedAt("resolve") => (tempdir = 0 /\ stages = <<"resolve">>)
    /\ LoadRaisedAt("extract") => (overrides = overridesArg /\ config = 0)
    /\ LoadRaisedAt("manifest") => (overrides = overridesArg /\ config = 0)
    /\ LoadRaisedAt("config") => (config = 0 /\ ~model.loaded)
    /\ outcome = "raised" =>
         (~model.loaded /\ ~result.returned /\ ~Entered("cleanup") /\ ~Entered("return"))
    /\ config # 0 => Entered("config")
    /\ model.loaded => Entered("model")
    /\ tempdir # 0 => Entered("mkdtemp")

\* A call raised at configuration loading after merging a manifest.
C8_Witness ==
  LoadRaisedAt("config") /\ Entered("manifest") /\ overrides # overridesArg

\* C9: the configuration of the returned Archive is the object configuration
\* loading produced, not the one handed to Model.load, and it still holds
\* the merged configuration whatever Model.load popped from its copy.
C9_ReturnedConfigIntact ==
  LoadReturned =>
    /\ result.config = config
    /\ result.config # model.params
    /\ heap[result.config] = ParamsFromFile(archive.config, overrides)

\* Model.load popped a parameter from its copy and load_archive returned.
C9_Witness ==
  /\ LoadReturned
  /\ heap[model.params] # heap[result.config]
  /\ heap[result.config] # EmptyMap

\* The call under C10: the weights file exists, model_params.json does not.
ConfigMissingCall ==
  call = "archive_model" /\ weights \in weightsFiles /\ ~configFile.exists

====
